---- MODULE Spec2Model ----
(***************************************************************************)
(* Invoice record store and payment-file retention of server.cjs.          *)
(*                                                                         *)
(* src/server.cjs holds two builds of the server: lines 1-212 keep the     *)
(* database in memory with sql.js and write it out with saveDB ("sqljs"),  *)
(* lines 214-496 use node-sqlite3 ("sqlite3").  The variable `variant'     *)
(* says which build a behaviour runs.                                      *)
(*                                                                         *)
(* Values.  SQL NULL is the empty tuple.  A JavaScript value of a request  *)
(* body is a tagged tuple (<<"undefined">>, <<"null">>, <<"string", s>>,   *)
(* <<"number", n>>, <<"boolean", b>>).  A timestamp text is the tuple of   *)
(* its fixed-width digit groups and its separator, so that comparing two   *)
(* texts character by character is comparing the tuples element by         *)
(* element:                                                                *)
(*   toISOString      "YYYY-MM-DDTHH:MM:SS.sssZ"  <<day, "T", sec, ms>>    *)
(*   SQLite datetime  "YYYY-MM-DD HH:MM:SS"       <<day, " ", sec>>        *)
(*   arrival_date     "YYYY-MM-DD"                <<day>>                  *)
(* A stored payment file invoice_<id>_<ts>.pdf is <<id, ts>>, and the      *)
(* reference /payments/invoice_<id>_<ts>.pdf is <<"/payments/", id, ts>>.  *)
(* Date.now() is in milliseconds since the epoch.                          *)
(*                                                                         *)
(* A request handler is one action.  Failures of the database itself (the  *)
(* err branches of the db callbacks) are not modelled; a failing unlink    *)
(* is (the set `denied').                                                  *)
(*                                                                         *)
(* SpecAsync runs the sqlite3 build with GET /api/invoice/history taken    *)
(* apart into the statements node-sqlite3 and fs run in their own time:    *)
(* the SELECT of cleanupOldPayments with its callback, each unlink, each   *)
(* UPDATE, and the history SELECT.  node-sqlite3 runs the statements of a  *)
(* database that is not in serialize() mode in any order.                  *)
(***************************************************************************)
EXTENDS Integers, Sequences, FiniteSets, TLC

VARIABLES
    variant,    \* which build runs: "sqljs" or "sqlite3"
    invoices,   \* table invoices: id -> row
    seq,        \* AUTOINCREMENT: the largest id ever assigned
    disk,       \* the database file at dbPath: [invoices, seq]
    files,      \* the files in paymentsDir
    denied,     \* the files whose unlink fails with an error other than ENOENT
    now,        \* the clock, Date.now()
    ticks,      \* how many times the clock has advanced
    uploads,    \* how many files multer has stored
    resp,       \* the response to the last request
    sweeps      \* sqlite3 build: the passes of cleanupOldPayments whose
                \* statements run one by one (SpecAsync), in starting order

vars == <<variant, invoices, seq, disk, files, denied, now, ticks, uploads, resp,
          sweeps>>

-----------------------------------------------------------------------------
(* Bounds of the model *)

MaxInvoices == 2
MaxTicks == 2
MaxUploads == 2
MaxDenied == 1
MaxDay == 12
MaxSweeps == 2

-----------------------------------------------------------------------------
(* Constants of the program *)

NULL == <<>>

DayMs == 24 * 60 * 60 * 1000

maxAge == 10 * DayMs

tenDaysMs == 10 * DayMs

StartMs == DayMs

\* the n-th advance of the clock: ten days, then half seconds
StepAt(n) == IF n = 0 THEN tenDaysMs ELSE 500

Variants == {"sqljs", "sqlite3"}

-----------------------------------------------------------------------------
(* JavaScript values of a request body *)

Undefined == <<"undefined">>

JsNull == <<"null">>

JsString(s) == <<"string", s>>

JsNumber(n) == <<"number", n>>

JsBool(b) == <<"boolean", b>>

\* !v : undefined, null, "", 0 and false are falsy
Falsy(v) ==
    \/ v[1] \in {"undefined", "null"}
    \/ v[1] = "string" /\ v[2] = ""
    \/ v[1] = "number" /\ v[2] = 0
    \/ v[1] = "boolean" /\ v[2] = FALSE

\* need_new_request ? 1 : 0
NeedFlag(v) == IF Falsy(v) THEN 0 ELSE 1

\* the column value a bound parameter stores: null binds NULL
SqlValue(v) == IF v[1] \in {"undefined", "null"} THEN NULL ELSE v

\* sql.js binds strings, numbers, booleans and null, and throws on undefined
SqlJsCanBind(v) == v[1] # "undefined"

-----------------------------------------------------------------------------
(* Timestamps *)

\* toISOString without the milliseconds
toISOStringSeconds(ms) == <<ms \div DayMs, "T", (ms % DayMs) \div 1000, 0>>

\* new Date(ms).toISOString()
toISOString(ms) == <<ms \div DayMs, "T", (ms % DayMs) \div 1000, ms % 1000>>

\* Date.parse of a text written by toISOString
DateParse(s) == s[1] * DayMs + s[3] * 1000 + s[4]

\* new Date().toISOString().substring(0, 10)
DateOnly(ms) == <<ms \div DayMs>>

\* SQLite datetime(ms as a time value): seconds, the fraction dropped
SqlDatetime(ms) == <<ms \div DayMs, " ", (ms % DayMs) \div 1000>>

\* SQLite datetime(text) of a text written by toISOString
SqlDatetimeOfText(s) == <<s[1], " ", s[3]>>

\* SQLite datetime('now', '-10 days')
SqlNowMinus10Days(t) == SqlDatetime(t - 10 * DayMs)

\* the code of the i-th element of a timestamp text: a digit group compares as
\* its number, the separator (element 2) as its character
CharKey(s, i) == IF i = 2 THEN (IF s[i] = "T" THEN 84 ELSE 32) ELSE s[i]

\* a >= b for two texts compared as SQLite compares TEXT (memcmp, then length)
RECURSIVE TextGEFrom(_, _, _)
TextGEFrom(a, b, i) ==
    IF i > Len(b) THEN TRUE
    ELSE IF i > Len(a) THEN FALSE
    ELSE IF CharKey(a, i) > CharKey(b, i) THEN TRUE
    ELSE IF CharKey(a, i) < CharKey(b, i) THEN FALSE
    ELSE TextGEFrom(a, b, i + 1)

TextGE(a, b) == TextGEFrom(a, b, 1)

-----------------------------------------------------------------------------
(* Payment files *)

\* `invoice_${id}_${Date.now()}.pdf`
FileName(id, ts) == <<id, ts>>

\* `/payments/${req.file.filename}`
RelativePath(f) == <<"/payments/", f[1], f[2]>>

\* path.join(rootDir, row.payment_file): the file a reference names
FileOf(ref) == <<ref[2], ref[3]>>

-----------------------------------------------------------------------------
(* The table and its queries *)

\* request bodies of POST /api/invoice/create: complete, or with one field
\* missing
PlainBodies ==
    { [supplier |-> JsString("Acme"), organization_type |-> JsString("LLC"),
       amount |-> JsNumber(150), need_new_request |-> JsBool(TRUE),
       arrival_date |-> JsString("2020-01-01")],
      [supplier |-> Undefined, organization_type |-> JsString("LLC"),
       amount |-> JsNumber(150), need_new_request |-> Undefined,
       arrival_date |-> Undefined] }

\* more request bodies: a field given as null, an amount of 0
CreateBodies ==
    PlainBodies \cup
    { [supplier |-> JsString("Acme"), organization_type |-> JsNull,
       amount |-> JsNumber(150), need_new_request |-> Undefined,
       arrival_date |-> Undefined],
      [supplier |-> JsString("Acme"), organization_type |-> JsString("LLC"),
       amount |-> JsNumber(0), need_new_request |-> Undefined,
       arrival_date |-> Undefined] }

\* the :id of a request: an id is not in the table until it is assigned
Ids == 1 .. MaxInvoices

\* the file part of an upload request: none, or its declared MIME type
FileParts == {"none", "application/pdf", "image/png"}

\* the row INSERT writes (sql.js build: the table has arrival_date)
NewRowSqlJs(id, body, t) ==
    [id |-> id,
     supplier |-> SqlValue(body.supplier),
     organization_type |-> SqlValue(body.organization_type),
     amount |-> SqlValue(body.amount),
     created_at |-> toISOString(t),
     arrival_date |-> IF Falsy(body.arrival_date) THEN DateOnly(t)
                      ELSE body.arrival_date,
     need_new_request |-> NeedFlag(body.need_new_request),
     paid |-> 0,
     payment_file |-> NULL,
     paid_at |-> NULL]

\* the row INSERT writes (sqlite3 build)
NewRowSqlite3(id, body, t) ==
    [id |-> id,
     supplier |-> SqlValue(body.supplier),
     organization_type |-> SqlValue(body.organization_type),
     amount |-> SqlValue(body.amount),
     created_at |-> toISOString(t),
     need_new_request |-> NeedFlag(body.need_new_request),
     paid |-> 0,
     payment_file |-> NULL,
     paid_at |-> NULL]

\* INSERT INTO invoices: the table with the row added under its id
Insert(inv, row) ==
    [i \in DOMAIN inv \cup {row.id} |-> IF i = row.id THEN row ELSE inv[i]]

\* UPDATE invoices SET need_new_request = ? WHERE id = ?
SetNeedNewRequest(inv, id, flag) ==
    [i \in DOMAIN inv |->
        IF i = id THEN [inv[i] EXCEPT !.need_new_request = flag] ELSE inv[i]]

\* SetPaid without "paid = 1": the row keeps its paid flag
SetPaidKeepsFlag(inv, id, paidAt) ==
    [i \in DOMAIN inv |->
        IF i = id THEN [inv[i] EXCEPT !.paid_at = paidAt] ELSE inv[i]]

\* UPDATE invoices SET paid = 1, paid_at = ? WHERE id = ?
SetPaid(inv, id, paidAt) ==
    [i \in DOMAIN inv |->
        IF i = id THEN [inv[i] EXCEPT !.paid = 1, !.paid_at = paidAt]
        ELSE inv[i]]

\* SetPaidWithFile without "paid_at = ?": the row keeps its paid_at
SetPaidWithFileKeepsPaidAt(inv, id, paidAt, ref) ==
    [i \in DOMAIN inv |->
        IF i = id
        THEN [inv[i] EXCEPT !.paid = 1, !.payment_file = ref]
        ELSE inv[i]]

\* SetPaidWithFile without "paid = 1": the row keeps its paid flag
SetPaidWithFileKeepsFlag(inv, id, paidAt, ref) ==
    [i \in DOMAIN inv |->
        IF i = id
        THEN [inv[i] EXCEPT !.paid_at = paidAt, !.payment_file = ref]
        ELSE inv[i]]

\* UPDATE invoices SET paid = 1, paid_at = ?, payment_file = ? WHERE id = ?
SetPaidWithFile(inv, id, paidAt, ref) ==
    [i \in DOMAIN inv |->
        IF i = id
        THEN [inv[i] EXCEPT !.paid = 1, !.paid_at = paidAt, !.payment_file = ref]
        ELSE inv[i]]

\* ClearPaymentFile that clears paid_at with the reference
ClearPaymentFileAndPaidAt(inv, id) ==
    [i \in DOMAIN inv |->
        IF i = id THEN [inv[i] EXCEPT !.payment_file = NULL, !.paid_at = NULL]
        ELSE inv[i]]

\* UPDATE invoices SET payment_file = NULL WHERE id = ?
ClearPaymentFile(inv, id) ==
    [i \in DOMAIN inv |->
        IF i = id THEN [inv[i] EXCEPT !.payment_file = NULL] ELSE inv[i]]

\* this.changes of an UPDATE ... WHERE id = ?
Changes(inv, id) == IF id \in DOMAIN inv THEN 1 ELSE 0

\* the rows S of a result in every order
Orders(S) ==
    { s \in [1 .. Cardinality(S) -> S] :
        \A i, j \in 1 .. Cardinality(S) : i # j => s[i] # s[j] }

ByIdDesc(r1, r2) == r1.id >= r2.id

\* SELECT * FROM invoices WHERE paid = 0 ORDER BY id DESC
ListUnpaid(inv) ==
    { s \in Orders({inv[i] : i \in {j \in DOMAIN inv : inv[j].paid = 0}}) :
        \A k \in 1 .. (Len(s) - 1) : ByIdDesc(s[k], s[k + 1]) }

ByPaidAtTextDesc(r1, r2) == TextGE(r1.paid_at, r2.paid_at)

\* sql.js build: WHERE paid = 1 AND paid_at >= datetime('now','-10 days')
\* ORDER BY paid_at DESC; paid_at is compared as the text it is stored as
HistorySqlJs(inv, t) ==
    { s \in Orders({inv[i] : i \in {j \in DOMAIN inv :
                        /\ inv[j].paid = 1
                        /\ inv[j].paid_at # NULL
                        /\ TextGE(inv[j].paid_at, SqlNowMinus10Days(t))}}) :
        \A k \in 1 .. (Len(s) - 1) : ByPaidAtTextDesc(s[k], s[k + 1]) }

ByPaidAtDatetimeDesc(r1, r2) ==
    TextGE(SqlDatetimeOfText(r1.paid_at), SqlDatetimeOfText(r2.paid_at))

\* sqlite3 build: WHERE paid = 1 AND paid_at IS NOT NULL
\* AND datetime(paid_at) >= datetime('now', '-10 days')
\* ORDER BY datetime(paid_at) DESC; rows with equal keys come in any order
HistorySqlite3(inv, t) ==
    { s \in Orders({inv[i] : i \in {j \in DOMAIN inv :
                        /\ inv[j].paid = 1
                        /\ inv[j].paid_at # NULL
                        /\ TextGE(SqlDatetimeOfText(inv[j].paid_at),
                                  SqlNowMinus10Days(t))}}) :
        \A k \in 1 .. (Len(s) - 1) : ByPaidAtDatetimeDesc(s[k], s[k + 1]) }

-----------------------------------------------------------------------------
(* The retention sweep *)

\* ExpiredSqlJs with a window of eleven days
ExpiredSqlJsElevenDays(inv, t) ==
    { i \in DOMAIN inv :
        /\ inv[i].payment_file # NULL
        /\ inv[i].paid_at # NULL
        /\ t - DateParse(inv[i].paid_at) > maxAge + DayMs }

\* sql.js build: the rows cleanupPayments handles: payment_file IS NOT NULL,
\* paid_at set, and now - Date.parse(paid_at) > maxAge
ExpiredSqlJs(inv, t) ==
    { i \in DOMAIN inv :
        /\ inv[i].payment_file # NULL
        /\ inv[i].paid_at # NULL
        /\ t - DateParse(inv[i].paid_at) > maxAge }

\* sql.js build: items.forEach from row i on, in rowid order.  unlinkSync of a
\* file that exists and cannot be removed throws: the loop stops there.
RECURSIVE CleanupFrom(_, _, _, _, _)
CleanupFrom(inv, fs, deny, t, i) ==
    IF \A j \in DOMAIN inv : j < i
    THEN [invoices |-> inv, files |-> fs, threw |-> FALSE]
    ELSE IF i \notin ExpiredSqlJs(inv, t)
    THEN CleanupFrom(inv, fs, deny, t, i + 1)
    ELSE IF FileOf(inv[i].payment_file) \in fs /\ FileOf(inv[i].payment_file) \in deny
    THEN [invoices |-> inv, files |-> fs, threw |-> TRUE]
    ELSE CleanupFrom(ClearPaymentFile(inv, i),
                     fs \ {FileOf(inv[i].payment_file)}, deny, t, i + 1)

\* sql.js build: cleanupPayments() up to its saveDB()
cleanupPayments(inv, fs, deny, t) == CleanupFrom(inv, fs, deny, t, 1)

\* ExpiredSqlite3 with >= for >: a file paid for exactly ten days ago goes too
ExpiredSqlite3AtWindow(inv, t) ==
    { i \in DOMAIN inv :
        /\ inv[i].payment_file # NULL
        /\ inv[i].paid_at # NULL
        /\ DateParse(inv[i].paid_at) # 0
        /\ t - DateParse(inv[i].paid_at) >= tenDaysMs }

\* sqlite3 build: the rows cleanupOldPayments handles: payment_file and
\* paid_at NOT NULL, Date.parse(paid_at) truthy, now - paidAtTime > tenDaysMs
ExpiredSqlite3(inv, t) ==
    { i \in DOMAIN inv :
        /\ inv[i].payment_file # NULL
        /\ inv[i].paid_at # NULL
        /\ DateParse(inv[i].paid_at) # 0
        /\ t - DateParse(inv[i].paid_at) > tenDaysMs }

\* cleanupOldPayments whose UPDATE resets paid as well
cleanupOldPaymentsUnpays(inv, fs, deny, t) ==
    [invoices |->
        [i \in DOMAIN inv |->
            IF i \in ExpiredSqlite3(inv, t)
            THEN [inv[i] EXCEPT !.payment_file = NULL, !.paid = 0] ELSE inv[i]],
     files |->
        fs \ {f \in {FileOf(inv[i].payment_file) : i \in ExpiredSqlite3(inv, t)} :
                f \notin deny}]

\* sqlite3 build: cleanupOldPayments() with its unlinks and UPDATEs done.  A
\* failed unlink is logged and the UPDATE of that row runs all the same.
cleanupOldPayments(inv, fs, deny, t) ==
    [invoices |->
        [i \in DOMAIN inv |->
            IF i \in ExpiredSqlite3(inv, t)
            THEN [inv[i] EXCEPT !.payment_file = NULL] ELSE inv[i]],
     files |->
        fs \ {f \in {FileOf(inv[i].payment_file) : i \in ExpiredSqlite3(inv, t)} :
                f \notin deny}]

-----------------------------------------------------------------------------
(* Responses *)

Response(op, status) ==
    [op |-> op, status |-> status, lastID |-> 0, paid_at |-> NULL,
     payment_file |-> NULL, rows |-> <<>>, error |-> ""]

NoResponse == Response("none", 0)

\* res.json(...) of a handler that answers with no status set
Ok(op) == Response(op, 200)

\* res.status(400).json({ error })
BadRequest(op, msg) == [Response(op, 400) EXCEPT !.error = msg]

\* res.status(404).json({ error: "Invoice not found" })
NotFound(op) == [Response(op, 404) EXCEPT !.error = "Invoice not found"]

\* an exception or next(err) out of a handler: the router answers 500
ServerError(op, msg) == [Response(op, 500) EXCEPT !.error = msg]

\* a fileFilter that accepts every type
fileFilterAcceptsAll(mimetype) == TRUE

\* multer fileFilter: file.mimetype === "application/pdf"
fileFilter(mimetype) == mimetype = "application/pdf"

-----------------------------------------------------------------------------
(* Initial state: a fresh database, an empty payments directory *)

Init ==
    /\ variant \in Variants
    /\ invoices = <<>>
    /\ seq = 0
    /\ disk = [invoices |-> <<>>, seq |-> 0]
    /\ files = {}
    /\ denied = {}
    /\ now = StartMs
    /\ ticks = 0
    /\ uploads = 0
    /\ resp = NoResponse
    /\ sweeps = <<>>

\* saveDB(): the whole database is written to dbPath
saveDB(inv, s) == [invoices |-> inv, seq |-> s]

-----------------------------------------------------------------------------
(* sql.js build: the request handlers *)

\* POST /api/invoice/create: no validation; binding an undefined parameter
\* throws before the INSERT
CreateSqlJs(body) ==
    /\ variant = "sqljs"
    /\ IF /\ SqlJsCanBind(body.supplier)
          /\ SqlJsCanBind(body.organization_type)
          /\ SqlJsCanBind(body.amount)
       THEN /\ seq < MaxInvoices
            /\ invoices' = Insert(invoices, NewRowSqlJs(seq + 1, body, now))
            /\ seq' = seq + 1
            /\ disk' = saveDB(invoices', seq')
            /\ resp' = Ok("create")
       ELSE /\ resp' = ServerError("create", "Wrong API use")
            /\ UNCHANGED <<invoices, seq, disk>>
    /\ UNCHANGED <<variant, sweeps, files, denied, now, ticks, uploads>>

\* GET /api/invoice/list
ListSqlJs ==
    /\ variant = "sqljs"
    /\ \E rows \in ListUnpaid(invoices) :
          resp' = [Ok("list") EXCEPT !.rows = rows]
    /\ UNCHANGED <<variant, sweeps, invoices, seq, disk, files, denied, now, ticks, uploads>>

\* GET /api/invoice/history: cleanupPayments(), then the query
HistoryRequestSqlJs ==
    /\ variant = "sqljs"
    /\ LET c == cleanupPayments(invoices, files, denied, now) IN
          /\ invoices' = c.invoices
          /\ files' = c.files
          /\ IF c.threw
             THEN /\ disk' = disk
                  /\ resp' = ServerError("history", "unlink")
             ELSE /\ disk' = saveDB(c.invoices, seq)
                  /\ \E rows \in HistorySqlJs(c.invoices, now) :
                        resp' = [Ok("history") EXCEPT !.rows = rows]
    /\ UNCHANGED <<variant, sweeps, seq, denied, now, ticks, uploads>>

\* POST /api/invoice/update/:id
UpdateSqlJs(id, flag) ==
    /\ variant = "sqljs"
    /\ invoices' = SetNeedNewRequest(invoices, id, NeedFlag(flag))
    /\ disk' = saveDB(invoices', seq)
    /\ resp' = Ok("update")
    /\ UNCHANGED <<variant, sweeps, seq, files, denied, now, ticks, uploads>>

\* POST /api/invoice/mark-paid/:id
MarkPaidSqlJs(id) ==
    /\ variant = "sqljs"
    /\ invoices' = SetPaid(invoices, id, toISOString(now))
    /\ disk' = saveDB(invoices', seq)
    /\ resp' = [Ok("mark-paid") EXCEPT !.paid_at = toISOString(now)]
    /\ UNCHANGED <<variant, sweeps, seq, files, denied, now, ticks, uploads>>

\* POST /api/invoice/upload-payment/:id behind upload.single("payment")
UploadSqlJs(id, part) ==
    /\ variant = "sqljs"
    /\ IF part = "none"
       THEN \* req.file is undefined: req.file.filename throws
            /\ resp' = ServerError("upload-payment", "TypeError")
            /\ UNCHANGED <<invoices, disk, files, uploads>>
       ELSE IF ~fileFilter(part)
       THEN \* fileFilter: cb(new Error(...)), nothing is stored
            /\ resp' = ServerError("upload-payment", "only PDF")
            /\ UNCHANGED <<invoices, disk, files, uploads>>
       ELSE /\ uploads < MaxUploads
            /\ uploads' = uploads + 1
            /\ files' = files \cup {FileName(id, now)}
            /\ invoices' = SetPaidWithFile(invoices, id, toISOString(now),
                                           RelativePath(FileName(id, now)))
            /\ disk' = saveDB(invoices', seq)
            /\ resp' = [Ok("upload-payment") EXCEPT
                            !.paid_at = toISOString(now),
                            !.payment_file = RelativePath(FileName(id, now))]
    /\ UNCHANGED <<variant, sweeps, seq, denied, now, ticks>>

\* the process starts again: initDB() reads the database back from dbPath
RestartSqlJs ==
    /\ variant = "sqljs"
    /\ invoices' = disk.invoices
    /\ seq' = disk.seq
    /\ resp' = NoResponse
    /\ UNCHANGED <<variant, sweeps, disk, files, denied, now, ticks, uploads>>

-----------------------------------------------------------------------------
(* sqlite3 build: the request handlers *)

\* POST /api/invoice/create
CreateSqlite3(body) ==
    /\ variant = "sqlite3"
    /\ IF Falsy(body.supplier) \/ Falsy(body.organization_type) \/ Falsy(body.amount)
       THEN /\ resp' = BadRequest("create", "missing data")
            /\ UNCHANGED <<invoices, seq>>
       ELSE /\ seq < MaxInvoices
            /\ invoices' = Insert(invoices, NewRowSqlite3(seq + 1, body, now))
            /\ seq' = seq + 1
            /\ resp' = [Ok("create") EXCEPT !.lastID = seq + 1]
    /\ disk' = saveDB(invoices', seq')
    /\ UNCHANGED <<variant, sweeps, files, denied, now, ticks, uploads>>

\* GET /api/invoice/list
ListSqlite3 ==
    /\ variant = "sqlite3"
    /\ \E rows \in ListUnpaid(invoices) :
          resp' = [Ok("list") EXCEPT !.rows = rows]
    /\ UNCHANGED <<variant, sweeps, invoices, seq, disk, files, denied, now, ticks, uploads>>

\* GET /api/invoice/history: cleanupOldPayments() queues its SELECT, the
\* handler queues the history SELECT; the sweep's UPDATEs are queued from the
\* callback of its SELECT, so the history SELECT reads before them (early) or
\* after them
HistoryRequestSqlite3(early) ==
    /\ variant = "sqlite3"
    /\ LET c == cleanupOldPayments(invoices, files, denied, now) IN
          /\ invoices' = c.invoices
          /\ files' = c.files
          /\ \E rows \in HistorySqlite3(IF early THEN invoices ELSE c.invoices, now) :
                resp' = [Ok("history") EXCEPT !.rows = rows]
    /\ disk' = saveDB(invoices', seq)
    /\ UNCHANGED <<variant, sweeps, seq, denied, now, ticks, uploads>>

\* POST /api/invoice/update/:id
UpdateSqlite3(id, flag) ==
    /\ variant = "sqlite3"
    /\ invoices' = SetNeedNewRequest(invoices, id, NeedFlag(flag))
    /\ disk' = saveDB(invoices', seq)
    /\ resp' = IF Changes(invoices, id) = 0 THEN NotFound("update")
               ELSE Ok("update")
    /\ UNCHANGED <<variant, sweeps, seq, files, denied, now, ticks, uploads>>

\* POST /api/invoice/mark-paid/:id
MarkPaidSqlite3(id) ==
    /\ variant = "sqlite3"
    /\ invoices' = SetPaid(invoices, id, toISOString(now))
    /\ disk' = saveDB(invoices', seq)
    /\ resp' = IF Changes(invoices, id) = 0 THEN NotFound("mark-paid")
               ELSE [Ok("mark-paid") EXCEPT !.paid_at = toISOString(now)]
    /\ UNCHANGED <<variant, sweeps, seq, files, denied, now, ticks, uploads>>

\* POST /api/invoice/upload-payment/:id behind upload.single("payment")
UploadSqlite3(id, part) ==
    /\ variant = "sqlite3"
    /\ IF part = "none"
       THEN \* if (!req.file)
            /\ resp' = BadRequest("upload-payment", "no file")
            /\ UNCHANGED <<invoices, files, uploads>>
       ELSE IF ~fileFilter(part)
       THEN \* fileFilter: cb(new Error(...)), nothing is stored
            /\ resp' = ServerError("upload-payment", "only PDF")
            /\ UNCHANGED <<invoices, files, uploads>>
       ELSE /\ uploads < MaxUploads
            /\ uploads' = uploads + 1
            /\ files' = files \cup {FileName(id, now)}
            /\ invoices' = SetPaidWithFile(invoices, id, toISOString(now),
                                           RelativePath(FileName(id, now)))
            /\ resp' = IF Changes(invoices, id) = 0
                       THEN NotFound("upload-payment")
                       ELSE [Ok("upload-payment") EXCEPT
                                !.paid_at = toISOString(now),
                                !.payment_file = RelativePath(FileName(id, now))]
    /\ disk' = saveDB(invoices', seq)
    /\ UNCHANGED <<variant, sweeps, seq, denied, now, ticks>>

\* the process starts again on the same database: cleanupOldPayments()
RestartSqlite3 ==
    /\ variant = "sqlite3"
    /\ LET c == cleanupOldPayments(invoices, files, denied, now) IN
          /\ invoices' = c.invoices
          /\ files' = c.files
    /\ disk' = saveDB(invoices', seq)
    /\ resp' = NoResponse
    /\ UNCHANGED <<variant, sweeps, seq, denied, now, ticks, uploads>>

-----------------------------------------------------------------------------
(* The environment *)

\* time passes
Tick ==
    /\ ticks < MaxTicks
    /\ now + StepAt(ticks) <= MaxDay * DayMs
    /\ now' = now + StepAt(ticks)
    /\ ticks' = ticks + 1
    /\ UNCHANGED <<variant, sweeps, invoices, seq, disk, files, denied, uploads, resp>>

\* a stored file becomes one that unlink cannot remove (EACCES, EPERM, EBUSY)
FsDeny(f) ==
    /\ f \in files
    /\ Cardinality(denied) < MaxDenied
    /\ denied' = denied \cup {f}
    /\ UNCHANGED <<variant, sweeps, invoices, seq, disk, files, now, ticks, uploads, resp>>

-----------------------------------------------------------------------------

Flags == {Undefined, JsBool(TRUE), JsBool(FALSE)}

\* the requests of a running server, its restarts, the clock and the file system
Next ==
    \/ \E body \in PlainBodies : CreateSqlJs(body)
    \/ ListSqlJs
    \/ HistoryRequestSqlJs
    \/ \E id \in Ids, flag \in Flags : UpdateSqlJs(id, flag)
    \/ \E id \in Ids : MarkPaidSqlJs(id)
    \/ \E id \in Ids, part \in FileParts : UploadSqlJs(id, part)
    \/ RestartSqlJs
    \/ \E body \in PlainBodies : CreateSqlite3(body)
    \/ ListSqlite3
    \/ \E early \in BOOLEAN : HistoryRequestSqlite3(early)
    \/ \E id \in Ids, flag \in Flags : UpdateSqlite3(id, flag)
    \/ \E id \in Ids : MarkPaidSqlite3(id)
    \/ \E id \in Ids, part \in FileParts : UploadSqlite3(id, part)
    \/ RestartSqlite3
    \/ Tick
    \/ \E f \in files : FsDeny(f)

Spec == Init /\ [][Next]_vars

\* the record store alone, with every request body: no uploads, no sweep
NextStore ==
    \/ \E body \in CreateBodies : CreateSqlJs(body)
    \/ ListSqlJs
    \/ \E id \in Ids, flag \in Flags : UpdateSqlJs(id, flag)
    \/ \E id \in Ids : MarkPaidSqlJs(id)
    \/ \E body \in CreateBodies : CreateSqlite3(body)
    \/ ListSqlite3
    \/ \E id \in Ids, flag \in Flags : UpdateSqlite3(id, flag)
    \/ \E id \in Ids : MarkPaidSqlite3(id)
    \/ Tick

SpecStore == Init /\ [][NextStore]_vars

-----------------------------------------------------------------------------
(* sqlite3 build: GET /api/invoice/history, statement by statement *)

\* SELECT id, payment_file, paid_at FROM invoices
\* WHERE payment_file IS NOT NULL AND paid_at IS NOT NULL
SweepRows(inv) ==
    { [id |-> i, payment_file |-> inv[i].payment_file, paid_at |-> inv[i].paid_at] :
        i \in {j \in DOMAIN inv : inv[j].payment_file # NULL /\ inv[j].paid_at # NULL} }

\* rows.forEach: the rows that pass !paidAtTime and now - paidAtTime > tenDaysMs
ExpiredRows(rows, t) ==
    { r \in rows : DateParse(r.paid_at) # 0 /\ t - DateParse(r.paid_at) > tenDaysMs }

\* the error fs.unlink hands to its callback: none (""), ENOENT for a file that
\* is not there, EACCES for one that cannot be removed
UnlinkError(f, fs, deny) ==
    IF f \notin fs THEN "ENOENT" ELSE IF f \in deny THEN "EACCES" ELSE ""

\* an unlink callback that logs every error
LoggedAnyError(code) == code # ""

\* unlinkErr && unlinkErr.code !== "ENOENT": the error is logged
Logged(code) == code # "" /\ code # "ENOENT"

\* cleanupOldPayments() has taken Date.now() and handed its SELECT to db.all;
\* the handler has handed the history SELECT to db.all
NewSweep(t) ==
    [now |-> t, stage |-> "select", expired |-> {}, unlinks |-> {}, updates |-> {},
     history |-> TRUE, errors |-> {}]

\* GET /api/invoice/history arrives: cleanupOldPayments(), then db.all
HistoryStart ==
    /\ variant = "sqlite3"
    /\ Len(sweeps) < MaxSweeps
    /\ sweeps' = Append(sweeps, NewSweep(now))
    /\ UNCHANGED <<variant, invoices, seq, disk, files, denied, now, ticks, uploads, resp>>

\* the database runs the SELECT of pass k, and its callback runs: for every
\* expired row, fs.unlink and db.run(UPDATE) are called; both do their work
\* later.  (The callback reads only the rows and the time the pass holds, so
\* it is one step with the SELECT.)
SweepSelect(k) ==
    /\ sweeps[k].stage = "select"
    /\ LET rows == ExpiredRows(SweepRows(invoices), sweeps[k].now) IN
          sweeps' = [sweeps EXCEPT
              ![k].stage = "work",
              ![k].expired = {r.id : r \in rows},
              ![k].unlinks = {FileOf(r.payment_file) : r \in rows},
              ![k].updates = {r.id : r \in rows}]
    /\ UNCHANGED <<variant, invoices, seq, disk, files, denied, now, ticks, uploads, resp>>

\* fs.unlink(filePath, ...) of pass k runs, and its callback
SweepUnlink(k, f) ==
    /\ f \in sweeps[k].unlinks
    /\ files' = IF UnlinkError(f, files, denied) = "" THEN files \ {f} ELSE files
    /\ sweeps' = [sweeps EXCEPT
          ![k].unlinks = @ \ {f},
          ![k].errors = IF Logged(UnlinkError(f, files, denied))
                        THEN @ \cup {<<"unlink payment error", f>>} ELSE @]
    /\ UNCHANGED <<variant, invoices, seq, disk, denied, now, ticks, uploads, resp>>

\* the database runs UPDATE invoices SET payment_file = NULL WHERE id = ? of
\* pass k
SweepUpdate(k, id) ==
    /\ id \in sweeps[k].updates
    /\ invoices' = ClearPaymentFile(invoices, id)
    /\ disk' = saveDB(invoices', seq)
    /\ sweeps' = [sweeps EXCEPT ![k].updates = @ \ {id}]
    /\ UNCHANGED <<variant, seq, files, denied, now, ticks, uploads, resp>>

\* the database runs the history SELECT of the request that started pass k,
\* and the handler answers
HistorySelect(k) ==
    /\ sweeps[k].history
    /\ \E rows \in HistorySqlite3(invoices, now) :
          resp' = [Ok("history") EXCEPT !.rows = rows]
    /\ sweeps' = [sweeps EXCEPT ![k].history = FALSE]
    /\ UNCHANGED <<variant, invoices, seq, disk, files, denied, now, ticks, uploads>>

InitAsync == Init /\ variant = "sqlite3"

\* the sqlite3 build with history requests whose statements interleave with
\* one another and with create, mark-paid and PDF upload requests
NextAsync ==
    \/ \E body \in PlainBodies : CreateSqlite3(body)
    \/ \E id \in Ids : MarkPaidSqlite3(id)
    \/ \E id \in Ids : UploadSqlite3(id, "application/pdf")
    \/ HistoryStart
    \/ \E k \in DOMAIN sweeps : SweepSelect(k)
    \/ \E k \in DOMAIN sweeps : \E f \in sweeps[k].unlinks : SweepUnlink(k, f)
    \/ \E k \in DOMAIN sweeps : \E id \in sweeps[k].updates : SweepUpdate(k, id)
    \/ \E k \in DOMAIN sweeps : HistorySelect(k)
    \/ Tick

SpecAsync == InitAsync /\ [][NextAsync]_vars

-----------------------------------------------------------------------------
(* The steps and the terms the properties are stated in *)

\* the retention window of the specification: 10 days
Window == 10 * DayMs

\* a step that runs the retention sweep: a history request, or a restart of
\* the sqlite3 build
SweepStep ==
    \/ /\ resp'.op = "history"
       /\ HistoryRequestSqlJs \/ \E early \in BOOLEAN : HistoryRequestSqlite3(early)
    \/ /\ resp'.op = "none"
       /\ RestartSqlite3

\* a step that answers GET /api/invoice/history
HistoryStep ==
    /\ resp'.op = "history"
    /\ HistoryRequestSqlJs \/ \E early \in BOOLEAN : HistoryRequestSqlite3(early)

MarkPaidStep(id) ==
    /\ resp'.op = "mark-paid"
    /\ MarkPaidSqlJs(id) \/ MarkPaidSqlite3(id)

UploadStep(id, part) ==
    /\ resp'.op = "upload-payment"
    /\ UploadSqlJs(id, part) \/ UploadSqlite3(id, part)

UpdateStep(id, flag) ==
    /\ resp'.op = "update"
    /\ UpdateSqlJs(id, flag) \/ UpdateSqlite3(id, flag)

CreateStep(body) ==
    /\ resp'.op = "create"
    /\ CreateSqlJs(body) \/ CreateSqlite3(body)

\* row r holds a payment file paid for more than the window before time t
Overdue(r, t) ==
    /\ r.payment_file # NULL
    /\ r.paid_at # NULL
    /\ t - DateParse(r.paid_at) > Window

\* the ids of the rows of a query result
IdsOf(rows) == {rows[k].id : k \in DOMAIN rows}

\* what the build's history query may return for table inv at time t
HistoryOf(inv, t) ==
    IF variant = "sqljs" THEN HistorySqlJs(inv, t) ELSE HistorySqlite3(inv, t)

-----------------------------------------------------------------------------
(* C1 *)

\* C1: in every reachable state, every invoice with paid = 0 has paid_at NULL
\* and payment_file NULL.
C1_UnpaidHasNoPayment ==
    \A id \in DOMAIN invoices :
        invoices[id].paid = 0 =>
            invoices[id].paid_at = NULL /\ invoices[id].payment_file = NULL

\* an unpaid invoice beside a paid one that holds a payment file
C1_Witness ==
    \E i, j \in DOMAIN invoices :
        /\ invoices[i].paid = 0
        /\ invoices[j].paid = 1
        /\ invoices[j].payment_file # NULL

-----------------------------------------------------------------------------
(* C2 *)

\* C2 as stated: once an invoice's paid_at is set, no later step changes it.
C2_PaidAtNeverChanges ==
    [][\A id \in DOMAIN invoices :
          invoices[id].paid_at # NULL =>
              /\ id \in DOMAIN invoices'
              /\ invoices'[id].paid_at = invoices[id].paid_at]_vars

\* C2 as amended: once an invoice's paid_at is set it is never NULL again, and
\* it changes only in a mark-paid or an accepted upload-payment request for
\* that invoice, which sets it to the time of that request.
C2_PaidAtChangesOnlyByPayment ==
    [][\A id \in DOMAIN invoices :
          invoices[id].paid_at # NULL =>
              /\ id \in DOMAIN invoices'
              /\ invoices'[id].paid_at # NULL
              /\ invoices'[id].paid_at # invoices[id].paid_at =>
                    /\ MarkPaidStep(id) \/ UploadStep(id, "application/pdf")
                    /\ invoices'[id].paid_at = toISOString(now)]_vars

\* an invoice paid by an upload whose paid_at a later mark-paid has moved on
C2_Witness ==
    \E id \in DOMAIN invoices :
        /\ invoices[id].payment_file # NULL
        /\ invoices[id].paid_at # NULL
        /\ DateParse(invoices[id].paid_at) > invoices[id].payment_file[3]
        /\ resp.op = "mark-paid"

-----------------------------------------------------------------------------
(* C3 *)

\* C3: a sweep that runs to completion clears payment_file of every invoice
\* whose payment file was paid for more than 10 days before the sweep's now,
\* and removes the file (unless the file system refuses to); it leaves
\* payment_file and the file of every other invoice as they were.
C3_SweepPurgesExactlyOverdue ==
    [][(SweepStep /\ (variant = "sqljs" => resp'.status = 200)) =>
          \A id \in DOMAIN invoices :
              IF Overdue(invoices[id], now)
              THEN /\ invoices'[id].payment_file = NULL
                   /\ FileOf(invoices[id].payment_file) \notin denied =>
                         FileOf(invoices[id].payment_file) \notin files'
              ELSE /\ invoices'[id].payment_file = invoices[id].payment_file
                   /\ \A f \in files : f[1] = id => f \in files']_vars

\* after a history request: one invoice's file purged, the other's kept
C3_Witness ==
    /\ resp.op = "history"
    /\ resp.status = 200
    /\ uploads = 2
    /\ Cardinality(files) = 1
    /\ \E i, j \in DOMAIN invoices :
          /\ invoices[i].paid = 1
          /\ invoices[i].payment_file = NULL
          /\ now - DateParse(invoices[i].paid_at) > Window
          /\ invoices[j].payment_file # NULL
          /\ FileOf(invoices[j].payment_file) \in files

-----------------------------------------------------------------------------
(* C4 *)

\* C4: a sweep neither adds nor removes an invoice, and changes no field of
\* an invoice other than payment_file, which it leaves or sets to NULL.
C4_SweepTouchesOnlyPaymentFile ==
    [][SweepStep =>
          /\ DOMAIN invoices' = DOMAIN invoices
          /\ seq' = seq
          /\ \A id \in DOMAIN invoices :
                /\ invoices'[id].payment_file \in {invoices[id].payment_file, NULL}
                /\ invoices'[id] =
                      [invoices[id] EXCEPT !.payment_file = invoices'[id].payment_file]]_vars

\* a paid invoice whose file a restart's sweep has purged
C4_Witness ==
    /\ resp.op = "none"
    /\ uploads = 1
    /\ files = {}
    /\ \E id \in DOMAIN invoices :
          /\ invoices[id].paid = 1
          /\ invoices[id].paid_at # NULL
          /\ invoices[id].payment_file = NULL

-----------------------------------------------------------------------------
(* C5 *)

\* C5: no invoice a history request returns has a paid_at more than 10 days
\* before the time of the request.
C5_HistoryWithinWindow ==
    [][HistoryStep =>
          \A k \in DOMAIN resp'.rows :
              now - DateParse(resp'.rows[k].paid_at) <= Window]_vars

-----------------------------------------------------------------------------
(* C6 *)

\* C6: after a mark-paid request for an existing invoice, the unpaid list read
\* from the new state does not hold the invoice and the history read from it does.
C6_MarkPaidMovesToHistory ==
    [][\A id \in Ids :
          (MarkPaidStep(id) /\ id \in DOMAIN invoices) =>
              /\ resp'.status = 200
              /\ \A rows \in ListUnpaid(invoices') : id \notin IdsOf(rows)
              /\ \A rows \in HistoryOf(invoices', now') : id \in IdsOf(rows)]_vars

\* the answer to a mark-paid request for an invoice that holds no file
C6_Witness ==
    /\ resp.op = "mark-paid"
    /\ resp.status = 200
    /\ \E id \in DOMAIN invoices :
          /\ invoices[id].paid = 1
          /\ invoices[id].paid_at = resp.paid_at
          /\ invoices[id].payment_file = NULL

-----------------------------------------------------------------------------
(* C7 *)

-----------------------------------------------------------------------------
(* C8 *)

\* C8: update, mark-paid and upload-payment for an id that is not in the table
\* answer not-found, and no invoice is created or changed.
C8_UnknownIdIsNotFound ==
    [][\A id \in Ids :
          (/\ id \notin DOMAIN invoices
           /\ \/ \E flag \in Flags : UpdateStep(id, flag)
              \/ MarkPaidStep(id)
              \/ UploadStep(id, "application/pdf")) =>
              /\ resp'.status = 404
              /\ invoices' = invoices]_vars

-----------------------------------------------------------------------------
(* C9 *)

\* a required field that is absent: missing from the body, or null
Absent(v) == v[1] \in {"undefined", "null"}

\* C9: a create request with supplier, organization_type or amount absent is
\* answered with a validation error and adds no invoice; one with all three
\* present adds exactly one invoice, with paid = 0.
C9_CreateValidates ==
    [][\A body \in CreateBodies :
          CreateStep(body) =>
              IF \/ Absent(body.supplier)
                 \/ Absent(body.organization_type)
                 \/ Absent(body.amount)
              THEN /\ resp'.status = 400
                   /\ invoices' = invoices
              ELSE /\ resp'.status = 200
                   /\ \E id \in DOMAIN invoices' \ DOMAIN invoices :
                         /\ DOMAIN invoices' = DOMAIN invoices \cup {id}
                         /\ invoices'[id].paid = 0
                   /\ \A id \in DOMAIN invoices : invoices'[id] = invoices[id]]_vars

-----------------------------------------------------------------------------
(* C10 *)

\* C10: in a sweep, an overdue invoice whose file cannot be removed keeps its
\* payment_file, and every other overdue invoice has its payment_file cleared.
C10_FailedUnlinkSkipsOnlyThatRow ==
    [][SweepStep =>
          \A id \in DOMAIN invoices :
              Overdue(invoices[id], now) =>
                  IF /\ FileOf(invoices[id].payment_file) \in files
                     /\ FileOf(invoices[id].payment_file) \in denied
                  THEN invoices'[id].payment_file = invoices[id].payment_file
                  ELSE invoices'[id].payment_file = NULL]_vars

-----------------------------------------------------------------------------
(* The terms of the properties of SpecAsync *)

\* pass k has done all the work it queued
SweepDone(k) ==
    /\ sweeps[k].stage = "work"
    /\ sweeps[k].unlinks = {}
    /\ sweeps[k].updates = {}

-----------------------------------------------------------------------------
(* C11 *)

\* C11: when two sweep passes that both found invoice id expired have done all
\* their work, neither has logged an error, and the invoice's payment_file is
\* NULL unless a file was attached to it after the later pass started.
C11_ConcurrentSweepsBothComplete ==
    \A k1, k2 \in DOMAIN sweeps :
        \A id \in sweeps[k1].expired \cap sweeps[k2].expired :
            (k1 < k2 /\ SweepDone(k1) /\ SweepDone(k2)) =>
                /\ sweeps[k1].errors = {}
                /\ sweeps[k2].errors = {}
                /\ \/ invoices[id].payment_file = NULL
                   \/ invoices[id].payment_file[3] >= sweeps[k2].now

\* two finished passes over the same expired invoice: its reference is cleared
\* and its file is gone
C11_Witness ==
    /\ Len(sweeps) = 2
    /\ SweepDone(1)
    /\ SweepDone(2)
    /\ files = {}
    /\ \E id \in sweeps[1].expired \cap sweeps[2].expired :
          /\ invoices[id].paid = 1
          /\ invoices[id].payment_file = NULL

-----------------------------------------------------------------------------
(* C12 *)

\* C12: an accepted upload-payment request for an invoice stores its file
\* under a name different from the one the invoice's earlier accepted upload
\* was stored under.
C12_UploadNamesDiffer ==
    [][\A id \in DOMAIN invoices :
          (UploadStep(id, "application/pdf") /\ resp'.status = 200) =>
              invoices'[id].payment_file # invoices[id].payment_file]_vars

-----------------------------------------------------------------------------
(* C13 *)

\* C13: a new invoice has payment_file NULL, and the payment_file of an
\* invoice goes from NULL to a reference only in an accepted upload-payment
\* request for that invoice.
C13_FileSetOnlyByUpload ==
    [][\A id \in DOMAIN invoices' :
          IF id \notin DOMAIN invoices
          THEN invoices'[id].payment_file = NULL
          ELSE (invoices[id].payment_file = NULL /\ invoices'[id].payment_file # NULL) =>
                  /\ UploadStep(id, "application/pdf")
                  /\ resp'.status = 200]_vars

-----------------------------------------------------------------------------
(* C14 *)

\* C14: a successful create request answers with the id of the invoice it
\* added, an id greater than every id assigned before; and no step removes an
\* invoice, changes its id or lowers the largest id assigned.
C14_CreateReturnsFreshId ==
    [][/\ \A body \in PlainBodies :
             (CreateStep(body) /\ resp'.status = 200) =>
                 /\ resp'.lastID > seq
                 /\ DOMAIN invoices' = DOMAIN invoices \cup {resp'.lastID}
                 /\ \A id \in DOMAIN invoices : resp'.lastID > id
       /\ seq' >= seq
       /\ \A id \in DOMAIN invoices :
             /\ id \in DOMAIN invoices'
             /\ invoices'[id].id = id]_vars

-----------------------------------------------------------------------------
(* C15 *)

\* C15: in every reachable state, every file in the payments directory is the
\* file the payment_file of some invoice names.
C15_NoOrphanFiles ==
    \A f \in files :
        \E id \in DOMAIN invoices : invoices[id].payment_file = RelativePath(f)

-----------------------------------------------------------------------------
(* C16 *)

\* C16: when an UPDATE of a sweep pass clears the payment_file of an invoice,
\* that invoice's paid_at is more than 10 days before the time of the UPDATE.
C16_SweepClearsOnlyOverdue ==
    [][\A k \in DOMAIN sweeps : \A id \in sweeps[k].updates :
          (SweepUpdate(k, id) /\ invoices[id].payment_file # NULL) =>
              Overdue(invoices[id], now)]_vars

-----------------------------------------------------------------------------
(* C17 *)

\* pass k has yet to remove a file or clear a reference
PendingEffects(k) ==
    IF sweeps[k].stage = "select"
    THEN ExpiredRows(SweepRows(invoices), sweeps[k].now) # {}
    ELSE sweeps[k].unlinks # {} \/ sweeps[k].updates # {}

\* C17: when the history SELECT of a request runs, the sweep pass the request
\* started has no file left to remove and no reference left to clear.
C17_HistoryReadsAfterSweep ==
    [][\A k \in DOMAIN sweeps : HistorySelect(k) => ~PendingEffects(k)]_vars

-----------------------------------------------------------------------------
(* C18 *)

\* the time a reference was attached: the Date.now() in its file name
AttachedAt(ref) == ref[3]

\* a sweep step that ran to its end
CompletedSweepStep == SweepStep /\ (variant = "sqljs" => resp'.status = 200)

\* C18 as stated: after a completed sweep, no invoice holds a payment_file
\* attached more than 10 days before the sweep's now.
C18_NoFileAttachedBeforeWindow ==
    [][CompletedSweepStep =>
          \A id \in DOMAIN invoices' :
              invoices'[id].payment_file # NULL =>
                  now - AttachedAt(invoices'[id].payment_file) <= Window]_vars

\* C18 as amended: after a completed sweep, every invoice that holds a
\* payment_file has a paid_at no more than 10 days before the sweep's now.
C18_NoFileWithPaymentBeforeWindow ==
    [][CompletedSweepStep =>
          \A id \in DOMAIN invoices' :
              invoices'[id].payment_file # NULL =>
                  /\ invoices'[id].paid_at # NULL
                  /\ now - DateParse(invoices'[id].paid_at) <= Window]_vars

\* the answer to a history request that came after a mark-paid request of the
\* same millisecond: the invoice keeps a file attached more than 10 days ago
C18_Witness ==
    /\ resp.op = "history"
    /\ resp.status = 200
    /\ \E id \in DOMAIN invoices :
          /\ invoices[id].payment_file # NULL
          /\ now - AttachedAt(invoices[id].payment_file) > Window
          /\ DateParse(invoices[id].paid_at) = now

-----------------------------------------------------------------------------
(* C19 *)

\* C19: a mark-paid request for an existing invoice sets its paid to 1 and its
\* paid_at to the time of the request, and changes no other field of it, no
\* other invoice and no stored file.
C19_MarkPaidSetsOnlyPayment ==
    [][\A id \in DOMAIN invoices :
          MarkPaidStep(id) =>
              /\ invoices'[id].paid = 1
              /\ DateParse(invoices'[id].paid_at) = now
              /\ invoices' = [invoices EXCEPT
                                 ![id] = [@ EXCEPT !.paid = 1,
                                                   !.paid_at = invoices'[id].paid_at]]
              /\ files' = files]_vars

\* the answer to a mark-paid request, half a second past the full second, for
\* an invoice that keeps its file, beside an unpaid invoice
C19_Witness ==
    /\ resp.op = "mark-paid"
    /\ resp.status = 200
    /\ now % 1000 = 500
    /\ \E i, j \in DOMAIN invoices :
          /\ invoices[i].paid_at = resp.paid_at
          /\ DateParse(invoices[i].paid_at) = now
          /\ invoices[i].payment_file # NULL
          /\ AttachedAt(invoices[i].payment_file) < now
          /\ invoices[j].paid = 0

-----------------------------------------------------------------------------
(* C20 *)

\* C20: in every reachable state, every invoice with a payment_file has
\* paid = 1 and a paid_at.
C20_FileImpliesPaid ==
    \A id \in DOMAIN invoices :
        invoices[id].payment_file # NULL =>
            invoices[id].paid = 1 /\ invoices[id].paid_at # NULL

\* the answer to an accepted upload: the invoice holds the file, is paid and is
\* a row the sweep selects; beside it a paid invoice without a file
C20_Witness ==
    /\ resp.op = "upload-payment"
    /\ resp.status = 200
    /\ \E i, j \in DOMAIN invoices :
          /\ invoices[i].paid = 1
          /\ invoices[i].payment_file = NULL
          /\ invoices[j].payment_file = resp.payment_file
          /\ invoices[j].paid_at = resp.paid_at
          /\ invoices[j].paid = 1
          /\ FileOf(invoices[j].payment_file) \in files
          /\ j \in {r.id : r \in SweepRows(invoices)}

====
